---- MODULE Spec2Model ----
(***************************************************************************)
(* Model of test.py: the multi-round stability test of HTTP proxies, its   *)
(* registry of first-seen times (load_timestamps / save_timestamps) and    *)
(* the output file of final available proxies.                             *)
(***************************************************************************)
EXTENDS Integers, Sequences, FiniteSets, TLC

\* ------------------------------------------------------------------ bounds
MaxRaw == 3          \* longest list of valid lines read from the input file
MaxRoundsArg == 4    \* largest --max-rounds tried

\* --------------------------------------------------------- program constants
StablePasses == 3    \* while consecutive_success < 3
RunStart == 2        \* current_run_start_time = time.time()
Now == 3             \* now = time.time(), after the confirmation round

\* ------------------------------------------------------------------ strings
\* a string is the sequence of its characters
Digits == {"0", "1", "2", "3", "4", "5", "6", "7", "8", "9"}
DigitSeq == <<"0", "1", "2", "3", "4", "5", "6", "7", "8", "9">>
Letters == {"a", "b", "c", "d", "e", "f", "g", "h", "i", "j", "k", "l", "m",
            "n", "o", "p", "q", "r", "s", "t", "u", "v", "w", "x", "y", "z"}
HexDigits == Digits \cup {"a", "b", "c", "d", "e", "f"}
Whitespace == {" "}

\* str.find(c): the first index of c, 0 when there is none
Find(s, c) ==
    IF \E i \in 1..Len(s) : s[i] = c
    THEN CHOOSE i \in 1..Len(s) : s[i] = c /\ \A j \in 1..(i - 1) : s[j] # c
    ELSE 0

\* str.rfind(c): the last index of c, 0 when there is none
RFind(s, c) ==
    IF \E i \in 1..Len(s) : s[i] = c
    THEN CHOOSE i \in 1..Len(s) : s[i] = c /\ \A j \in (i + 1)..Len(s) : s[j] # c
    ELSE 0

\* the first index at which the two characters a, b follow each other, or 0
Find2(s, a, b) ==
    LET at == {i \in 1..(Len(s) - 1) : s[i] = a /\ s[i + 1] = b}
    IN  IF at = {} THEN 0 ELSE CHOOSE i \in at : \A j \in at : i <= j

\* str.split(c)
RECURSIVE Split(_, _)
Split(s, c) ==
    LET i == Find(s, c)
    IN  IF i = 0 THEN <<s>>
        ELSE <<SubSeq(s, 1, i - 1)>> \o Split(SubSeq(s, i + 1, Len(s)), c)

\* str.strip()
RECURSIVE Strip(_)
Strip(s) ==
    IF s = <<>> THEN s
    ELSE IF s[1] \in Whitespace THEN Strip(Tail(s))
    ELSE IF s[Len(s)] \in Whitespace THEN Strip(SubSeq(s, 1, Len(s) - 1))
    ELSE s

AllIn(s, chars) == \A i \in 1..Len(s) : s[i] \in chars

DigitVal(c) == (CHOOSE i \in 1..10 : DigitSeq[i] = c) - 1

RECURSIVE Decimal(_)
Decimal(s) == IF s = <<>> THEN 0 ELSE 10 * Decimal(SubSeq(s, 1, Len(s) - 1)) + DigitVal(s[Len(s)])

\* int(port_str) for strings of digits; -1 stands for the ValueError
ParseInt(s) == IF s # <<>> /\ AllIn(s, Digits) THEN Decimal(s) ELSE -1

\* ------------------------------------------------------ ipaddress.ip_address
IsOctet(s) ==
    /\ s # <<>> /\ Len(s) <= 3 /\ AllIn(s, Digits)
    /\ Len(s) > 1 => s[1] # "0"
    /\ Decimal(s) <= 255

IsIPv4(s) ==
    LET octets == Split(s, ".")
    IN  Len(octets) = 4 /\ \A i \in 1..4 : IsOctet(octets[i])

IsHextet(s) == s # <<>> /\ Len(s) <= 4 /\ AllIn(s, HexDigits)

\* IPv6Address: parts between colons, at most one "::", an IPv4 tail allowed
IsIPv6(s) ==
    LET raw == Split(s, ":")
        last == raw[Len(raw)]
        v4tail == Find(last, ".") # 0
        parts == IF v4tail THEN SubSeq(raw, 1, Len(raw) - 1) \o <<<<"0">>, <<"0">>>>
                 ELSE raw
        n == Len(parts)
        skips == {i \in 2..(n - 1) : parts[i] = <<>>}
        skip == CHOOSE i \in skips : TRUE
        hi == IF parts[1] = <<>> THEN skip - 2 ELSE skip - 1
        lo == IF parts[n] = <<>> THEN n - skip - 1 ELSE n - skip
    IN  /\ Len(raw) >= 3
        /\ v4tail => IsIPv4(last)
        /\ n <= 9
        /\ Cardinality(skips) <= 1
        /\ IF skips # {}
           THEN /\ parts[1] = <<>> => hi = 0
                /\ parts[n] = <<>> => lo = 0
                /\ hi + lo <= 7
                /\ \A i \in 1..hi : IsHextet(parts[i])
                /\ \A i \in (n - lo + 1)..n : IsHextet(parts[i])
           ELSE n = 8 /\ \A i \in 1..8 : IsHextet(parts[i])

\* ipaddress.ip_address(host) does not raise
IsIP(s) == IsIPv4(s) \/ IsIPv6(s)

\* ----------------------------------------------------------- validate_proxy
NoHost == <<"None">>

\* the (host, port_str) validate_proxy splits a proxy into, stripped; a pair
\* of empty strings when it returns False before
HostPort(proxy) ==
    IF proxy # <<>> /\ proxy[1] = "["
    THEN LET i == Find2(proxy, "]", ":")
         IN  IF i = 0 THEN <<proxy, <<>>>>
             ELSE <<Strip(SubSeq(proxy, 2, i - 1)), Strip(SubSeq(proxy, i + 2, Len(proxy)))>>
    ELSE LET i == RFind(proxy, ":")
         IN  <<Strip(SubSeq(proxy, 1, i - 1)), Strip(SubSeq(proxy, i + 1, Len(proxy)))>>

Localhost == <<"l", "o", "c", "a", "l", "h", "o", "s", "t">>
DomainChars == Letters \cup Digits \cup {".", "-", "_"}

HostAccepted(host) ==
    \/ host = Localhost
    \/ IsIP(host)
    \/ AllIn(host, DomainChars) /\ Len(host) <= 253

validate_proxy(proxy) ==
    /\ proxy # <<>> /\ Find(proxy, ":") # 0
    /\ LET hp == HostPort(proxy)
           port == ParseInt(hp[2])
       IN  /\ hp[1] # <<>> /\ hp[2] # <<>>
           /\ 1 <= port /\ port <= 65535
           /\ HostAccepted(hp[1])

\* ------------------------------------------------------------ CIDR filtering
\* extract_host_from_proxy; NoHost for None
extract_host_from_proxy(proxy) ==
    IF proxy # <<>> /\ proxy[1] = "["
    THEN LET end_bracket == Find(proxy, "]")
         IN  IF end_bracket = 0 THEN NoHost ELSE SubSeq(proxy, 2, end_bracket - 1)
    ELSE LET host == Strip(Split(proxy, ":")[1])
         IN  IF host = <<>> THEN NoHost ELSE host

\* the networks: 1.1.1.0/24 and ::/0
Net4 == [family |-> "v4", prefix |-> <<<<"1">>, <<"1">>, <<"1">>>>]
Net6 == [family |-> "v6", prefix |-> <<>>]

\* ip in cidr, for an address ip_address accepted
InNetwork(ip, cidr) ==
    IF cidr.family = "v4"
    THEN IsIPv4(ip) /\ SubSeq(Split(ip, "."), 1, Len(cidr.prefix)) = cidr.prefix
    ELSE IsIPv6(ip)

is_ip_in_cidr_list(ip_str, cidr_list) ==
    IsIP(ip_str) /\ \E i \in 1..Len(cidr_list) : InNetwork(ip_str, cidr_list[i])

KeepProxy(proxy, skip_cidr_list) ==
    LET host == extract_host_from_proxy(proxy)
    IN  host = NoHost \/ ~is_ip_in_cidr_list(host, skip_cidr_list)

filter_proxies_by_cidr(proxies, skip_cidr_list) ==
    IF skip_cidr_list = <<>> THEN proxies
    ELSE SelectSeq(proxies, LAMBDA p : KeepProxy(p, skip_cidr_list))

\* ------------------------------------------------------------- the universe
\* "1.1.1.1:1" and "[::1]:1"
Addr == {<<"1", ".", "1", ".", "1", ".", "1", ":", "1">>,
         <<"[", ":", ":", "1", "]", ":", "1">>}
None == "None"
Locs == {"US", None}
Nets == {Net4}

RegName == "out.json"
OutName == "out.txt"

\* ------------------------------------------------------------ list helpers
SetOf(s) == {s[i] : i \in 1..Len(s)}

RECURSIVE DedupFrom(_, _)
DedupFrom(s, seen) ==
    IF s = <<>> THEN <<>>
    ELSE IF Head(s) \in seen THEN DedupFrom(Tail(s), seen)
         ELSE <<Head(s)>> \o DedupFrom(Tail(s), seen \cup {Head(s)})

KeepDuplicates(raw) == raw

\* unique_proxies = list(dict.fromkeys(raw_proxies))
Dedup(raw) == DedupFrom(raw, {})

EmptyInfo == [a \in {} |-> 0]

\* ------------------------------------------------------------ files on disk
Absent == [kind |-> "absent", data |-> EmptyInfo]
Corrupt == [kind |-> "corrupt", data |-> EmptyInfo]
Partial(m) == [kind |-> "partial", data |-> m]
Json(m) == [kind |-> "json", data |-> m]
Exists(file) == file.kind # "absent"
\* the reader has read nothing yet
Unread == [kind |-> "unread", data |-> EmptyInfo]

\* a record of the registry file: one that load_timestamps keeps, or one it drops
Entry(t, l) == [wf |-> TRUE, added_at |-> t, location |-> l]
Malformed == [wf |-> FALSE, added_at |-> 0, location |-> None]
PriorRecords == {Entry(1, "DE"), Malformed}

PriorRegistries ==
    {Absent, Corrupt} \cup
    {Json(m) : m \in UNION {[D -> PriorRecords] : D \in SUBSET Addr}}

\* the output file: its lines
Lines(s) == [kind |-> "lines", data |-> s]

\* a line left by an earlier run: "a:1"
PriorOutputs == {Absent, Lines(<<<<"a", ":", "1">>>>)}

\* the lists of valid proxies read_proxies_from_file can return
RECURSIVE SeqsUpTo(_, _)
SeqsUpTo(S, n) ==
    IF n = 0 THEN {<<>>}
    ELSE LET shorter == SeqsUpTo(S, n - 1)
         IN  shorter \cup {Append(s, x) : s \in {t \in shorter : Len(t) = n - 1}, x \in S}

RawLists == SeqsUpTo(Addr, MaxRaw)

SkipLists == {<<>>} \cup {<<n>> : n \in Nets}

\* ------------------------------------------------------------------- state
VARIABLES
    pc,               \* position of main
    output,           \* args.output given
    max_rounds,       \* args.max_rounds
    raw_proxies,      \* what read_proxies_from_file returns
    skip_cidr_list,   \* what read_cidr_list_from_file returns ([] without --skip-cidr)
    fs,               \* the files: registry, temporary file, output file
    proxy_info,       \* the registry in memory
    current_proxies,  \* the working set
    consecutive_success,
    round_num,
    tasks,            \* the list handed to test_all_proxies
    results,          \* its outcomes, one per task, filled as the probes resolve
    cleaned_info,     \* the mapping handed to save_timestamps
    stable,           \* the test printed after the loop: consecutive_success >= 3
    loaded,           \* history: proxy_info as load_timestamps returned it
    prior,            \* history: the files as they were before the run
    failed_ever,      \* history: addresses that failed a loop round
    streak,           \* history: per address, fully passing rounds in a row it was part of
    confirm_probes,   \* history: per address, probes dispatched after the loop
    save_failed,      \* history: save_timestamps printed its warning
    out_written,      \* history: save_results_to_file wrote the output file
    reader_saw,       \* what a concurrent reader of the registry file last read
    setup_fault,      \* which of the setup's reads fails, if any
    interrupted,      \* history: KeyboardInterrupt reached main's handler
    remove_failed,    \* history: os.remove of the registry file raised
    max_concurrent,   \* args.concurrent
    never_respond,    \* the proxies that accept no connection and send nothing
    conn,             \* the tasks that hold a connection of the round's connector
    line              \* one line of the input file

vars == <<pc, output, max_rounds, raw_proxies, skip_cidr_list, fs, proxy_info,
          current_proxies, consecutive_success, round_num, tasks, results,
          cleaned_info, stable, loaded, prior, failed_ever, streak, confirm_probes,
          save_failed, out_written, reader_saw, setup_fault, interrupted,
          remove_failed, max_concurrent, never_respond, conn, line>>

\* what no step of main changes
given == <<setup_fault, max_concurrent, never_respond, line>>

TmpName == "out.tmp"
Files == {RegName, OutName, TmpName}

\* -c, --concurrent: default=70
DefaultConcurrent == 70

\* what can go wrong while the setup reads its files
SetupFaults == {"none", "input_missing", "cidr_unreadable"}

Init ==
    /\ pc = "start"
    /\ output \in BOOLEAN
    /\ setup_fault \in SetupFaults
    /\ max_concurrent = DefaultConcurrent
    /\ never_respond = {}
    /\ line = <<>>
    /\ max_rounds \in 0..MaxRoundsArg
    /\ raw_proxies \in RawLists
    /\ skip_cidr_list \in SkipLists
    /\ \E reg \in PriorRegistries, out \in PriorOutputs :
          /\ output \/ (reg = Absent /\ out = Absent)
          /\ fs = [f \in Files |-> IF f = RegName THEN reg
                                   ELSE IF f = OutName THEN out ELSE Absent]
    /\ proxy_info = EmptyInfo
    /\ current_proxies = <<>>
    /\ consecutive_success = 0
    /\ round_num = 0
    /\ tasks = <<>>
    /\ results = <<>>
    /\ cleaned_info = EmptyInfo
    /\ stable = FALSE
    /\ loaded = EmptyInfo
    /\ prior = fs
    /\ failed_ever = {}
    /\ streak = [a \in Addr |-> 0]
    /\ confirm_probes = [a \in Addr |-> 0]
    /\ save_failed = FALSE
    /\ out_written = FALSE
    /\ reader_saw = Unread
    /\ interrupted = None
    /\ remove_failed = FALSE
    /\ conn = {}

\* ----------------------------------------------------------------- registry
\* load_timestamps: {} for a missing or unreadable file, else the records that
\* are dicts with an added_at, reduced to added_at and location
load_timestamps(file) ==
    IF file.kind # "json" THEN EmptyInfo
    ELSE LET keep == {a \in DOMAIN file.data : file.data[a].wf}
         IN  [a \in keep |-> [added_at |-> file.data[a].added_at,
                              location |-> file.data[a].location]]

\* what json.dump writes for a mapping in memory
Dump(info) ==
    Json([a \in DOMAIN info |-> Entry(info[a].added_at, info[a].location)])

LocOrNA(loc) == IF loc = None THEN "N/A" ELSE loc

NewEntry(t, loc) == [added_at |-> t, location |-> LocOrNA(loc)]

Put(info, a, e) == [x \in DOMAIN info \cup {a} |-> IF x = a THEN e ELSE info[x]]

\* ------------------------------------------------------------------ probing
Pending(proxy) ==
    [proxy |-> proxy, done |-> FALSE, ok |-> FALSE, loc |-> None, err |-> ""]

\* the error strings of test_http_proxy for what the proxy answers or refuses
Errors == {"HTTP status", "Proxy connection failed", "Proxy HTTP error",
           "SSL/TLS error", "Connection failed", "Unknown error"}

Failure(e) == [ok |-> FALSE, loc |-> None, err |-> e]

\* what one probe can come back with: status 200 with or without a loc= line,
\* or a failure (one error stands for all of Errors)
Outcomes ==
    {[ok |-> TRUE, loc |-> l, err |-> ""] : l \in Locs} \cup {Failure("Connection failed")}

\* test_http_proxy: the tuple (proxy, ok, _, error, loc) of one probe
test_http_proxy(proxy, o) ==
    [proxy |-> proxy, done |-> TRUE, ok |-> o.ok, loc |-> o.loc, err |-> o.err]

\* what gather(return_exceptions=True) holds for a coroutine that raised
Raised == [proxy |-> <<>>, done |-> TRUE, ok |-> FALSE, loc |-> None, err |-> "raised"]

\* tasks = [test_http_proxy(proxy.strip(), ...) for proxy in proxies]
Dispatch(proxies) == [i \in 1..Len(proxies) |-> Pending(Strip(proxies[i]))]

ProcessedRaw(res, proxies) == res

\* processed_results: an exception becomes a failure of proxies[i].strip()
Processed(res, proxies) ==
    [i \in 1..Len(res) |->
        IF res[i] = Raised
        THEN [proxy |-> Strip(proxies[i]), done |-> TRUE, ok |-> FALSE, loc |-> None,
              err |-> "Exception"]
        ELSE res[i]]

AnyDone(res) == \E i \in 1..Len(res) : res[i].done

\* await asyncio.gather(*tasks, return_exceptions=True): every task is over
AllDone(res) == \A i \in 1..Len(res) : res[i].done

Available(res) == SelectSeq(res, LAMBDA r : r.ok)

ProxiesOf(res) == [i \in 1..Len(res) |-> res[i].proxy]

\* --------------------------------------------------------- the loop's tests
LoopCondOffByOne(cs, rn, mr) == cs < StablePasses /\ rn <= mr

\* while consecutive_success < 3 and round_num < args.max_rounds
LoopCond(cs, rn, mr) == cs < StablePasses /\ rn < mr

\* if len(available_proxies) == total
RoundPassed(available_proxies, total) == Len(available_proxies) = total

NextPassesKeep(cs, passed) == IF passed THEN cs + 1 ELSE cs

\* consecutive_success += 1, or consecutive_success = 0
NextPasses(cs, passed) == IF passed THEN cs + 1 ELSE 0

NextWorkingKeepAll(cur, available_proxies, passed) == cur

\* current_proxies = available_proxies, in the else branch only
NextWorking(cur, available_proxies, passed) ==
    IF passed THEN cur ELSE available_proxies

BreakNever(available_proxies) == FALSE

\* if not available_proxies: break
BreakOnEmpty(available_proxies) == available_proxies = <<>>

IsStableAtTwo(cs) == cs >= 2

\* if consecutive_success >= 3
IsStable(cs) == cs >= StablePasses

RECURSIVE AddNewRefreshing(_, _, _)
AddNewRefreshing(info, avail, t) ==
    IF avail = <<>> THEN info
    ELSE AddNewRefreshing(Put(info, Head(avail).proxy, NewEntry(t, Head(avail).loc)),
                          Tail(avail), t)

\* for proxy, loc in available_proxies_with_loc:
\*     if proxy not in proxy_info: proxy_info[proxy] = {added_at, location}
RECURSIVE AddNew(_, _, _)
AddNew(info, avail, t) ==
    IF avail = <<>> THEN info
    ELSE LET r == Head(avail)
             next == IF r.proxy \in DOMAIN info THEN info
                     ELSE Put(info, r.proxy, NewEntry(t, r.loc))
         IN  AddNew(next, Tail(avail), t)

\* -------------------------------------------------------------------- main
SetupFatalUnlessFiltered(fault, raw, filtered) == fault # "none" \/ raw = <<>>

\* the sys.exit(1) of the setup: the input file or the CIDR file cannot be
\* read, the proxy list is empty, or nothing is left after the CIDR filter
SetupFatal(fault, raw, filtered) ==
    fault # "none" \/ raw = <<>> \/ filtered = <<>>

\* lines 309-350: load the registry, read and deduplicate the list, filter it
Setup ==
    /\ pc = "start"
    /\ LET info == IF output THEN load_timestamps(fs[RegName]) ELSE EmptyInfo
           unique_proxies == Dedup(raw_proxies)
           filtered == filter_proxies_by_cidr(unique_proxies, skip_cidr_list)
       IN  /\ proxy_info' = info
           /\ loaded' = info
           /\ IF SetupFatal(setup_fault, raw_proxies, filtered)
              THEN /\ pc' = "exit1"
                   /\ UNCHANGED current_proxies
              ELSE /\ pc' = "loop_test"
                   /\ current_proxies' = filtered
    /\ UNCHANGED <<output, max_rounds, raw_proxies, skip_cidr_list, fs,
                   consecutive_success, round_num, tasks, results, cleaned_info,
                   stable, prior, failed_ever, streak, confirm_probes, save_failed,
                   out_written, reader_saw>>
    /\ UNCHANGED <<given, interrupted, remove_failed, conn>>

\* the while test holds: round_num += 1 and test_all_proxies dispatches the probes
StartRound ==
    /\ pc = "loop_test"
    /\ LoopCond(consecutive_success, round_num, max_rounds)
    /\ round_num' = round_num + 1
    /\ tasks' = current_proxies
    /\ results' = Dispatch(current_proxies)
    /\ pc' = "probing"
    /\ UNCHANGED <<output, max_rounds, raw_proxies, skip_cidr_list, fs, proxy_info,
                   current_proxies, consecutive_success, cleaned_info, stable,
                   loaded, prior, failed_ever, streak, confirm_probes, save_failed,
                   out_written, reader_saw>>
    /\ UNCHANGED <<given, interrupted, remove_failed, conn>>

\* one probe of the round in flight resolves
ProbeDone ==
    /\ pc \in {"probing", "confirm_probing"}
    /\ \E i \in 1..Len(results), o \in Outcomes :
          /\ ~results[i].done
          /\ results' = [results EXCEPT ![i] = test_http_proxy(tasks[i], o)]
    /\ UNCHANGED <<pc, output, max_rounds, raw_proxies, skip_cidr_list, fs,
                   proxy_info, current_proxies, consecutive_success, round_num,
                   tasks, cleaned_info, stable, loaded, prior, failed_ever, streak,
                   confirm_probes, save_failed, out_written, reader_saw>>
    /\ UNCHANGED <<given, interrupted, remove_failed, conn>>

\* lines 358-386: gather returned; count the round
EndRound ==
    /\ pc = "probing"
    /\ AllDone(results)
    /\ LET returned == Processed(results, tasks)
           available_proxies_with_loc == Available(returned)
           available_proxies == ProxiesOf(available_proxies_with_loc)
           total == Len(current_proxies)
           passed == RoundPassed(available_proxies, total)
           all_ok == \A i \in 1..Len(results) : results[i].ok
       IN  IF total = 0
           THEN /\ pc' = "after_loop"
                /\ UNCHANGED <<proxy_info, consecutive_success, current_proxies,
                               failed_ever, streak>>
           ELSE /\ proxy_info' = IF output
                                 THEN AddNew(proxy_info, available_proxies_with_loc, RunStart)
                                 ELSE proxy_info
                /\ consecutive_success' = NextPasses(consecutive_success, passed)
                /\ current_proxies' = NextWorking(current_proxies, available_proxies, passed)
                /\ pc' = IF BreakOnEmpty(available_proxies) THEN "after_loop" ELSE "loop_test"
                /\ failed_ever' = failed_ever \cup
                                  {returned[i].proxy : i \in {j \in 1..Len(returned) : ~returned[j].ok}}
                /\ streak' = [a \in Addr |-> IF all_ok /\ a \in SetOf(tasks)
                                             THEN streak[a] + 1 ELSE 0]
    /\ UNCHANGED <<output, max_rounds, raw_proxies, skip_cidr_list, fs, round_num,
                   tasks, cleaned_info, stable, loaded, prior, confirm_probes,
                   save_failed, out_written, reader_saw>>
    /\ UNCHANGED <<given, interrupted, remove_failed>>
    /\ results' = Processed(results, tasks)
    /\ conn' = {}

\* the while test fails
LoopExit ==
    /\ pc = "loop_test"
    /\ ~LoopCond(consecutive_success, round_num, max_rounds)
    /\ pc' = "after_loop"
    /\ UNCHANGED <<output, max_rounds, raw_proxies, skip_cidr_list, fs, proxy_info,
                   current_proxies, consecutive_success, round_num, tasks, results,
                   cleaned_info, stable, loaded, prior, failed_ever, streak,
                   confirm_probes, save_failed, out_written, reader_saw>>
    /\ UNCHANGED <<given, interrupted, remove_failed, conn>>

\* line 388: the report after the loop
Report ==
    /\ pc = "after_loop"
    /\ stable' = IsStable(consecutive_success)
    /\ pc' = "persist"
    /\ UNCHANGED <<output, max_rounds, raw_proxies, skip_cidr_list, fs, proxy_info,
                   current_proxies, consecutive_success, round_num, tasks, results,
                   cleaned_info, loaded, prior, failed_ever, streak, confirm_probes,
                   save_failed, out_written, reader_saw>>
    /\ UNCHANGED <<given, interrupted, remove_failed, conn>>

\* line 393-395: if args.output and current_proxies: probe the final list again
StartConfirm ==
    /\ pc = "persist"
    /\ output /\ current_proxies # <<>>
    /\ tasks' = current_proxies
    /\ results' = Dispatch(current_proxies)
    /\ confirm_probes' = [a \in Addr |->
           confirm_probes[a] + Cardinality({i \in 1..Len(current_proxies) : current_proxies[i] = a})]
    /\ pc' = "confirm_probing"
    /\ UNCHANGED <<output, max_rounds, raw_proxies, skip_cidr_list, fs, proxy_info,
                   current_proxies, consecutive_success, round_num, cleaned_info,
                   stable, loaded, prior, failed_ever, streak, save_failed, out_written,
                   reader_saw>>
    /\ UNCHANGED <<given, interrupted, remove_failed, conn>>

RemoveNothing(ok) == UNCHANGED <<fs, remove_failed>>

\* os.remove(timestamp_file) inside try/except: it removes the file or fails
RemoveRegistry(ok) ==
    /\ fs' = IF Exists(fs[RegName]) /\ ok THEN [fs EXCEPT ![RegName] = Absent] ELSE fs
    /\ remove_failed' = (Exists(fs[RegName]) /\ ~ok)

\* lines 423-430: elif args.output: nothing to save, the registry file is removed
NoProxiesToSave ==
    /\ pc = "persist"
    /\ output /\ current_proxies = <<>>
    /\ \E ok \in BOOLEAN : RemoveRegistry(ok)
    /\ pc' = "done"
    /\ UNCHANGED <<output, max_rounds, raw_proxies, skip_cidr_list, proxy_info,
                   current_proxies, consecutive_success, round_num, tasks, results,
                   cleaned_info, stable, loaded, prior, failed_ever, streak,
                   confirm_probes, save_failed, out_written, reader_saw>>
    /\ UNCHANGED <<given, interrupted, conn>>

\* no output path: main returns
FinishNoOutput ==
    /\ pc = "persist"
    /\ ~output
    /\ pc' = "done"
    /\ UNCHANGED <<output, max_rounds, raw_proxies, skip_cidr_list, fs, proxy_info,
                   current_proxies, consecutive_success, round_num, tasks, results,
                   cleaned_info, stable, loaded, prior, failed_ever, streak,
                   confirm_probes, save_failed, out_written, reader_saw>>
    /\ UNCHANGED <<given, interrupted, remove_failed, conn>>

RECURSIVE CleanedAlwaysNew(_, _, _)
CleanedAlwaysNew(info, avail, t) ==
    IF avail = <<>> THEN EmptyInfo
    ELSE Put(CleanedAlwaysNew(info, Tail(avail), t), Head(avail).proxy,
             NewEntry(t, Head(avail).loc))

CleanedKeepsAll(info, avail, t) ==
    LET keys == DOMAIN info \cup {avail[i].proxy : i \in 1..Len(avail)}
        seen(a) == CHOOSE i \in 1..Len(avail) : avail[i].proxy = a
    IN  [a \in keys |-> IF a \in DOMAIN info THEN info[a]
                        ELSE NewEntry(t, avail[seen(a)].loc)]

\* lines 400-409: cleaned_info, an entry per final survivor: the one of
\* proxy_info when there is one, else a new one
RECURSIVE CleanedInfo(_, _, _)
CleanedInfo(info, avail, t) ==
    IF avail = <<>> THEN EmptyInfo
    ELSE LET r == avail[Len(avail)]
             e == IF r.proxy \in DOMAIN info THEN info[r.proxy] ELSE NewEntry(t, r.loc)
         IN  Put(CleanedInfo(info, SubSeq(avail, 1, Len(avail) - 1), t), r.proxy, e)

\* lines 396-416: the confirmation round returned
EndConfirm ==
    /\ pc = "confirm_probing"
    /\ AllDone(results)
    /\ LET available_final == Available(Processed(results, tasks))
       IN  IF available_final # <<>>
           THEN /\ cleaned_info' = CleanedInfo(proxy_info, available_final, Now)
                /\ pc' = "save_open"
                /\ UNCHANGED <<fs, remove_failed>>
           ELSE /\ \E ok \in BOOLEAN : RemoveRegistry(ok)
                /\ pc' = "done"
                /\ UNCHANGED cleaned_info
    /\ UNCHANGED <<output, max_rounds, raw_proxies, skip_cidr_list, proxy_info,
                   current_proxies, consecutive_success, round_num, tasks,
                   stable, loaded, prior, failed_ever, streak, confirm_probes,
                   save_failed, out_written, reader_saw>>
    /\ UNCHANGED <<given, interrupted>>
    /\ results' = Processed(results, tasks)
    /\ conn' = {}

\* ------------------------------------------------------------ save_timestamps
InPlace(json_file) == json_file

\* tempfile.NamedTemporaryFile(delete=False, dir=dir_path, suffix='.tmp'): a
\* fresh name in the directory of json_file
TempFile(json_file) == TmpName

SaveSteps == {"save_open", "save_dump", "save_replace"}

SaveUnchanged ==
    /\ UNCHANGED <<output, max_rounds, raw_proxies, skip_cidr_list, proxy_info,
                   current_proxies, consecutive_success, round_num, tasks, results,
                   cleaned_info, stable, loaded, prior, failed_ever, streak, confirm_probes,
                   out_written, reader_saw>>
    /\ UNCHANGED <<given, interrupted, remove_failed, conn>>

\* except Exception: the warning, and main goes on to save_results_to_file
SaveWarn ==
    /\ save_failed' = TRUE
    /\ pc' = "write_out"

\* the temporary file is created and opened for writing, or that fails
SaveOpen ==
    /\ pc = "save_open"
    /\ \/ /\ fs' = [fs EXCEPT ![TempFile(RegName)] = Partial(EmptyInfo)]
          /\ pc' = "save_dump"
          /\ UNCHANGED save_failed
       \/ /\ SaveWarn
          /\ UNCHANGED fs
    /\ SaveUnchanged

\* json.dump and the close of the with block: the whole mapping is in the
\* temporary file, or the write fails part way
SaveDump ==
    /\ pc = "save_dump"
    /\ \/ /\ fs' = [fs EXCEPT ![TempFile(RegName)] = Dump(cleaned_info)]
          /\ pc' = "save_replace"
          /\ UNCHANGED save_failed
       \/ /\ SaveWarn
          /\ UNCHANGED fs
    /\ SaveUnchanged

\* os.replace(temp_name, json_file): one atomic rename, or it fails
SaveReplace ==
    /\ pc = "save_replace"
    /\ \/ /\ LET tmp == TempFile(RegName)
             IN  fs' = IF tmp = RegName THEN fs
                       ELSE [fs EXCEPT ![RegName] = fs[tmp], ![tmp] = Absent]
          /\ pc' = "write_out"
          /\ UNCHANGED save_failed
       \/ /\ SaveWarn
          /\ UNCHANGED fs
    /\ SaveUnchanged

\* the process is killed inside save_timestamps
CrashInSave ==
    /\ pc \in SaveSteps
    /\ pc' = "crashed"
    /\ UNCHANGED save_failed
    /\ UNCHANGED fs
    /\ SaveUnchanged

\* another process reads the registry file while save_timestamps runs
Reader ==
    /\ pc \in SaveSteps
    /\ reader_saw' = fs[RegName]
    /\ UNCHANGED <<pc, output, max_rounds, raw_proxies, skip_cidr_list, fs,
                   proxy_info, current_proxies, consecutive_success, round_num,
                   tasks, results, cleaned_info, stable, loaded, prior, failed_ever,
                   streak, confirm_probes, save_failed, out_written>>
    /\ UNCHANGED <<given, interrupted, remove_failed, conn>>

\* ------------------------------------------------------- save_results_to_file
\* sort_key: info.get('added_at', float('inf')); Now + 1 stands for inf
AddedAt(info, proxy) == IF proxy \in DOMAIN info THEN info[proxy].added_at ELSE Now + 1

\* sorted(available_proxies, key=sort_key): stable, ascending added_at
RECURSIVE SortedByAddedAt(_, _)
SortedByAddedAt(proxies, info) ==
    IF proxies = <<>> THEN <<>>
    ELSE LET rest == SortedByAddedAt(SubSeq(proxies, 1, Len(proxies) - 1), info)
             x == proxies[Len(proxies)]
             before == SelectSeq(rest, LAMBDA y : AddedAt(info, y) <= AddedAt(info, x))
             after == SelectSeq(rest, LAMBDA y : AddedAt(info, y) > AddedAt(info, x))
         IN  before \o <<x>> \o after

\* the output file is opened for writing and gets the sorted survivors of
\* final_results, or the open fails and the warning is printed
WriteOut ==
    /\ pc = "write_out"
    /\ LET available_proxies == ProxiesOf(Available(results))
       IN  \/ /\ fs' = [fs EXCEPT ![OutName] =
                           Lines(SortedByAddedAt(available_proxies, cleaned_info))]
              /\ out_written' = TRUE
           \/ UNCHANGED <<fs, out_written>>
    /\ pc' = "done"
    /\ UNCHANGED <<output, max_rounds, raw_proxies, skip_cidr_list, proxy_info,
                   current_proxies, consecutive_success, round_num, tasks, results,
                   cleaned_info, stable, loaded, prior, failed_ever, streak,
                   confirm_probes, save_failed, reader_saw>>
    /\ UNCHANGED <<given, interrupted, remove_failed, conn>>

\* ------------------------------------------------------------ the ways out
OnKeyboardInterruptAsError == "exit1"

\* except KeyboardInterrupt: sys.exit(0)
OnKeyboardInterrupt == "exit0"

\* the positions of main inside its try block
InTry == {"loop_test", "probing", "after_loop", "persist", "confirm_probing",
          "save_open", "save_dump", "save_replace", "write_out"}

\* the user interrupts the process while main is inside its try block: the
\* round in flight is cancelled with its connector and the handler exits
Interrupt ==
    /\ pc \in InTry
    /\ interrupted = None
    /\ interrupted' = pc
    /\ pc' = OnKeyboardInterrupt
    /\ results' = IF pc \in {"probing", "confirm_probing"} THEN <<>> ELSE results
    /\ conn' = {}
    /\ UNCHANGED <<output, max_rounds, raw_proxies, skip_cidr_list, fs, proxy_info,
                   current_proxies, consecutive_success, round_num, tasks,
                   cleaned_info, stable, loaded, prior, failed_ever, streak,
                   confirm_probes, save_failed, out_written, reader_saw>>
    /\ UNCHANGED <<given, remove_failed>>

\* the status the process ends with: 1 for sys.exit(1), 0 for sys.exit(0) and
\* for the return of main, -1 while it runs or when it was killed
ExitStatus(at) ==
    CASE at = "exit1" -> 1
      [] at \in {"exit0", "done"} -> 0
      [] OTHER -> -1

Next ==
    \/ Setup
    \/ StartRound
    \/ ProbeDone
    \/ EndRound
    \/ LoopExit
    \/ Report
    \/ StartConfirm
    \/ NoProxiesToSave
    \/ FinishNoOutput
    \/ EndConfirm
    \/ SaveOpen
    \/ SaveDump
    \/ SaveReplace
    \/ CrashInSave
    \/ Reader
    \/ WriteOut
    \/ Interrupt

Spec == Init /\ [][Next]_vars

\* ------------------------------------------- the probes of a round, one by one
MaxConcurrent == 2
MaxRoundsDetail == 2

\* "a:1"
DomainProxy == <<"a", ":", "1">>
DetailAddr == Addr \cup {DomainProxy}

\* the lists of distinct addresses
DistinctLists == {l \in SeqsUpTo(DetailAddr, Cardinality(DetailAddr)) :
                     \A i, j \in 1..Len(l) : l[i] = l[j] => i = j}

InitDetail ==
    /\ pc = "start"
    /\ output \in BOOLEAN
    /\ setup_fault = "none"
    /\ max_rounds \in 1..MaxRoundsDetail
    /\ max_concurrent \in 0..MaxConcurrent
    /\ never_respond \in SUBSET DetailAddr
    /\ raw_proxies \in DistinctLists
    /\ skip_cidr_list = <<>>
    /\ line = <<>>
    /\ fs = [f \in Files |-> Absent]
    /\ proxy_info = EmptyInfo
    /\ current_proxies = <<>>
    /\ consecutive_success = 0
    /\ round_num = 0
    /\ tasks = <<>>
    /\ results = <<>>
    /\ cleaned_info = EmptyInfo
    /\ stable = FALSE
    /\ loaded = EmptyInfo
    /\ prior = fs
    /\ failed_ever = {}
    /\ streak = [a \in Addr |-> 0]
    /\ confirm_probes = [a \in Addr |-> 0]
    /\ save_failed = FALSE
    /\ out_written = FALSE
    /\ reader_saw = Unread
    /\ interrupted = None
    /\ remove_failed = FALSE
    /\ conn = {}

Probing == pc \in {"probing", "confirm_probing"}

NoLimit(limit, held) == TRUE

\* TCPConnector(limit=max_concurrent): a connection can be taken while fewer
\* than limit are held; limit 0 is no limit
HasSlot(limit, held) == limit = 0 \/ held < limit

Waiting(i) == ~results[i].done /\ i \notin conn

ProbeUnchanged ==
    /\ UNCHANGED <<pc, output, max_rounds, raw_proxies, skip_cidr_list, fs,
                   proxy_info, current_proxies, consecutive_success, round_num,
                   tasks, cleaned_info, stable, loaded, prior, failed_ever, streak,
                   confirm_probes, save_failed, out_written, reader_saw>>
    /\ UNCHANGED <<given, interrupted, remove_failed>>

\* session.get of one probe gets a connection of the connector
Acquire ==
    /\ Probing
    /\ \E i \in 1..Len(results) :
          /\ Waiting(i)
          /\ HasSlot(max_concurrent, Cardinality(conn))
          /\ conn' = conn \cup {i}
    /\ UNCHANGED results
    /\ ProbeUnchanged

\* what a proxy that responds makes of a probe: status 200 (the trace has a
\* loc= line) or one of the classified errors
Answers == {[ok |-> TRUE, loc |-> "US", err |-> ""]} \cup {Failure(e) : e \in Errors}

\* a proxy responds; the connection is closed when the probe is over
\* (force_close=True)
Respond ==
    /\ Probing
    /\ \E i \in conn, o \in Answers :
          /\ tasks[i] \notin never_respond
          /\ results' = [results EXCEPT ![i] = test_http_proxy(tasks[i], o)]
          /\ conn' = conn \ {i}
    /\ ProbeUnchanged

\* the coroutine of a probe raises outside the handlers of test_http_proxy
Raise ==
    /\ Probing
    /\ \E i \in conn :
          /\ tasks[i] \notin never_respond
          /\ results' = [results EXCEPT ![i] = Raised]
          /\ conn' = conn \ {i}
    /\ ProbeUnchanged

\* ClientTimeout(total=timeout) of a probe connected to a proxy that never
\* responds: asyncio.TimeoutError
Timeout ==
    /\ Probing
    /\ \E i \in conn :
          /\ tasks[i] \in never_respond
          /\ results' = [results EXCEPT ![i] = test_http_proxy(tasks[i], Failure("Timeout"))]
          /\ conn' = conn \ {i}
    /\ ProbeUnchanged

\* ClientTimeout(total=timeout) runs from session.get on, the wait for a
\* connection included: a probe that waits while every connection is held by
\* a probe that never gets an answer times out with them
WaitTimeout ==
    /\ Probing
    /\ \E i \in 1..Len(results) :
          /\ Waiting(i)
          /\ ~HasSlot(max_concurrent, Cardinality(conn))
          /\ \A j \in conn : tasks[j] \in never_respond
          /\ results' = [results EXCEPT ![i] = test_http_proxy(tasks[i], Failure("Timeout"))]
    /\ UNCHANGED conn
    /\ ProbeUnchanged

NextDetail ==
    \/ Setup
    \/ StartRound
    \/ Acquire
    \/ Respond
    \/ Raise
    \/ Timeout
    \/ WaitTimeout
    \/ EndRound
    \/ LoopExit
    \/ Report
    \/ StartConfirm
    \/ NoProxiesToSave
    \/ FinishNoOutput
    \/ EndConfirm
    \/ SaveOpen
    \/ SaveDump
    \/ SaveReplace
    \/ WriteOut
    \/ Interrupt

SpecDetail == InitDetail /\ [][NextDetail]_vars

\* ------------------------------------------------ one line through the setup
MaxStr == 7

Alphabet == {"1", ":", "[", "]", " "}

RECURSIVE Strings(_)
Strings(n) ==
    IF n = 0 THEN {<<>>}
    ELSE LET shorter == Strings(n - 1)
         IN  shorter \cup {<<c>> \o t : c \in Alphabet, t \in {x \in shorter : Len(x) = n - 1}}

\* IPv4 hosts inside and outside 1.1.1.0/24, bare and in brackets, with port 1
Octets == {<<"1">>, <<"2">>}
V4Hosts == {a \o <<".">> \o b \o <<".">> \o c \o <<".">> \o d :
                a \in Octets, b \in Octets, c \in Octets, d \in Octets}
V4Lines == {h \o <<":", "1">> : h \in V4Hosts}
               \cup {<<"[">> \o h \o <<"]", ":", "1">> : h \in V4Hosts}

InputLines == Strings(MaxStr) \cup V4Lines

ParseSkipLists == {<<>>, <<Net4>>, <<Net6>>, <<Net4, Net6>>}

\* an input file of one line, no output path
InitParse ==
    /\ pc = "read"
    /\ line \in InputLines
    /\ skip_cidr_list \in ParseSkipLists
    /\ output = FALSE
    /\ setup_fault = "none"
    /\ max_rounds = 0
    /\ raw_proxies = <<>>
    /\ max_concurrent = DefaultConcurrent
    /\ never_respond = {}
    /\ fs = [f \in Files |-> Absent]
    /\ proxy_info = EmptyInfo
    /\ current_proxies = <<>>
    /\ consecutive_success = 0
    /\ round_num = 0
    /\ tasks = <<>>
    /\ results = <<>>
    /\ cleaned_info = EmptyInfo
    /\ stable = FALSE
    /\ loaded = EmptyInfo
    /\ prior = fs
    /\ failed_ever = {}
    /\ streak = [a \in Addr |-> 0]
    /\ confirm_probes = [a \in Addr |-> 0]
    /\ save_failed = FALSE
    /\ out_written = FALSE
    /\ reader_saw = Unread
    /\ interrupted = None
    /\ remove_failed = FALSE
    /\ conn = {}

\* read_proxies_from_file: the stripped line is kept when it is not empty and
\* validate_proxy accepts it
read_proxies_from_file(l) ==
    IF Strip(l) # <<>> /\ validate_proxy(Strip(l)) THEN <<Strip(l)>> ELSE <<>>

ReadLine ==
    /\ pc = "read"
    /\ raw_proxies' = read_proxies_from_file(line)
    /\ pc' = "start"
    /\ UNCHANGED <<output, max_rounds, skip_cidr_list, fs, proxy_info,
                   current_proxies, consecutive_success, round_num, tasks, results,
                   cleaned_info, stable, loaded, prior, failed_ever, streak,
                   confirm_probes, save_failed, out_written, reader_saw>>
    /\ UNCHANGED <<given, interrupted, remove_failed, conn>>

NextParse ==
    \/ ReadLine
    \/ Setup

SpecParse == InitParse /\ [][NextParse]_vars

\* ------------------------------------------------------------------ claims
LoopOver == pc \in {"after_loop", "persist", "confirm_probing", "save_open",
                    "save_dump", "save_replace", "write_out", "done", "crashed"}

Reported == LoopOver /\ pc # "after_loop"

\* the registry file was replaced by save_timestamps in this run
RegistrySaved ==
    pc \in {"write_out", "done"} /\ cleaned_info # EmptyInfo /\ ~save_failed

\* the addresses this run wrote to the output file and to the registry file
WrittenOut == IF out_written THEN SetOf(fs[OutName].data) ELSE {}
WrittenReg == IF RegistrySaved THEN DOMAIN fs[RegName].data ELSE {}

\* the survivors of the round whose outcomes are in results
Survivors == SetOf(ProxiesOf(Available(results)))

\* C1, as stated: every proxy written to the output file or to the registry
\* file took part in three consecutive rounds in which every member of the
\* working set succeeded (looked at in the runs that ran a loop round).
C1_OnlyStableWritten ==
    round_num >= 1 => \A a \in WrittenOut \cup WrittenReg : streak[a] >= 3

\* C1, amended: every proxy written to the output file or to the registry file
\* is a member of the final working set, failed no loop round and succeeded in
\* the confirmation round; when the loop was reported stable it took part in
\* three consecutive fully passing rounds.
C1_WrittenSurvivedEveryRound ==
    \A a \in WrittenOut \cup WrittenReg :
        /\ a \in SetOf(current_proxies)
        /\ a \notin failed_ever
        /\ a \in Survivors
        /\ stable => streak[a] >= 3

C1_Witness ==
    /\ pc = "done" /\ out_written /\ RegistrySaved
    /\ stable /\ failed_ever # {} /\ WrittenOut # {}

\* C2: the loop runs at most max_rounds rounds; it is reported stable exactly
\* when consecutive_success reached 3 (three fully passing rounds in a row of
\* the working set), and otherwise it stopped because round_num reached
\* max_rounds or the working set is empty; with max_rounds = 1 and a first
\* round that is not fully passing exactly one round is run.
C2_LoopTermination ==
    /\ round_num <= max_rounds
    /\ consecutive_success <= 3
    /\ Reported =>
          /\ stable <=> consecutive_success = 3
          /\ stable <=> (current_proxies # <<>> /\
                         \A a \in SetOf(current_proxies) : streak[a] = 3)
          /\ ~stable => (round_num = max_rounds \/ current_proxies = <<>>)
          /\ (max_rounds = 1 /\ failed_ever # {}) => (round_num = 1 /\ ~stable)

C2_Witness ==
    /\ pc = "done" /\ max_rounds = 1 /\ round_num = 1
    /\ failed_ever # {} /\ current_proxies # <<>> /\ ~stable

\* a step that ends a loop round: gather has returned and the round is counted
RoundEnds == pc = "probing" /\ pc' \in {"loop_test", "after_loop"}

\* C3: a round is counted as a pass (consecutive_success incremented, working
\* set unchanged) if and only if the set of its survivors equals the working
\* set, and the comparison of the counts agrees with the equality of the sets
\* whenever a round has returned.
C3_CountAgrees ==
    (pc = "probing" /\ AllDone(results)) =>
        (Len(Available(results)) = Len(current_proxies)
            <=> Survivors = SetOf(current_proxies))

C3_PassStep ==
    RoundEnds =>
        ((consecutive_success' = consecutive_success + 1
            /\ current_proxies' = current_proxies)
          <=> Survivors = SetOf(current_proxies))

C3_PassIffSetEquality == []C3_CountAgrees /\ [][C3_PassStep]_vars

\* a failing round that left one survivor, then a round counted as a pass
C3_Witness ==
    /\ pc = "loop_test" /\ consecutive_success = 1 /\ round_num = 2
    /\ Len(current_proxies) = 1 /\ failed_ever # {}

\* C4: the working set never regrows: each step leaves it a subset of what it
\* was, and a proxy that failed a loop round is in no later working set and
\* in no later round, the confirmation round included.
C4_Shrinks ==
    pc # "start" =>
        /\ SetOf(current_proxies') \subseteq SetOf(current_proxies)
        /\ Len(current_proxies') <= Len(current_proxies)

C4_FailedStayOut ==
    /\ failed_ever \cap SetOf(current_proxies) = {}
    /\ pc \in {"probing", "confirm_probing"} => failed_ever \cap SetOf(tasks) = {}

C4_NeverRegrows == []C4_FailedStayOut /\ [][C4_Shrinks]_vars

C4_Witness ==
    /\ pc = "confirm_probing" /\ round_num >= 2
    /\ failed_ever # {} /\ Len(tasks) = 1 /\ Len(Dedup(raw_proxies)) = 2

\* C5: a round in which some member of the working set fails sets
\* consecutive_success to 0 and makes that round's survivors the next working
\* set.
C5_FailStep ==
    (RoundEnds /\ \E i \in 1..Len(results) : ~results[i].ok) =>
        /\ consecutive_success' = 0
        /\ current_proxies' = ProxiesOf(Available(results))

C5_FailingRoundResets == [][C5_FailStep]_vars

\* two passing rounds, then a failing one
C5_Witness ==
    /\ pc = "loop_test" /\ round_num = 3 /\ consecutive_success = 0
    /\ Len(tasks) = 2 /\ Len(current_proxies) = 1

\* C6: a loop round without survivor ends the loop at once: the working set
\* is empty, no further loop round is started whatever the round budget, and
\* no probe of a confirmation round is dispatched.
C6_BreakStep ==
    (RoundEnds /\ Available(results) = <<>>) =>
        (pc' = "after_loop" /\ current_proxies' = <<>>)

C6_NothingAfter ==
    (LoopOver /\ current_proxies = <<>>) =>
        /\ round_num' = round_num
        /\ confirm_probes' = confirm_probes
        /\ results' = results
        /\ pc' \notin {"loop_test", "probing", "confirm_probing"}

C6_NoSurvivorEndsLoop == [][C6_BreakStep /\ C6_NothingAfter]_vars

C6_Witness ==
    /\ pc = "done" /\ output /\ round_num = 1 /\ max_rounds > 1
    /\ current_proxies = <<>> /\ Len(tasks) = 2
    /\ \A a \in Addr : confirm_probes[a] = 0

\* the run has decided what to do with the final working set
Persisting == pc \in {"confirm_probing", "save_open", "save_dump", "save_replace",
                      "write_out", "done", "crashed"}

\* C7: with an output path, each member of the final working set is probed
\* exactly once after the loop (and nothing else is), and what is written to
\* the output file and to the registry is exactly the set of survivors of
\* that confirmation round; nothing is written when it has no survivor.
C7_ConfirmationDecides ==
    (output /\ Persisting) =>
        /\ \A a \in Addr :
              confirm_probes[a] = IF a \in SetOf(current_proxies) THEN 1 ELSE 0
        /\ pc # "confirm_probing" =>
              /\ out_written => SetOf(fs[OutName].data) = Survivors
              /\ RegistrySaved =>
                    (fs[RegName].kind = "json" /\ DOMAIN fs[RegName].data = Survivors)
              /\ (pc = "done" /\ ~save_failed /\ Survivors # {}) => RegistrySaved
              /\ Survivors = {} => (~out_written /\ ~RegistrySaved)

\* the confirmation round dropped one of two loop survivors
C7_Witness ==
    /\ pc = "done" /\ out_written /\ RegistrySaved
    /\ round_num >= 1 /\ Len(current_proxies) = 2
    /\ Cardinality(DOMAIN fs[RegName].data) = 1

\* C8: an entry loaded from the registry at the start of the run is never
\* changed in memory, and an address that was loaded and is in the registry
\* saved at the end is saved with the loaded added_at and location.
C8_FirstSeenKept ==
    /\ \A a \in DOMAIN loaded :
          a \in DOMAIN proxy_info /\ proxy_info[a] = loaded[a]
    /\ RegistrySaved =>
          \A a \in DOMAIN loaded \cap DOMAIN fs[RegName].data :
              fs[RegName].data[a] = Entry(loaded[a].added_at, loaded[a].location)

\* a loaded address passed loop rounds, was seen with a location in the
\* confirmation round and was saved
C8_Witness ==
    /\ pc = "done" /\ RegistrySaved /\ round_num >= 2
    /\ \E i \in 1..Len(results) :
          /\ results[i].ok /\ results[i].loc = "US"
          /\ results[i].proxy \in DOMAIN loaded
          /\ results[i].proxy \in DOMAIN fs[RegName].data

\* the run ended with at least one final survivor
EndedWithSurvivors == pc = "done" /\ output /\ cleaned_info # EmptyInfo

\* C9, as stated: after a run that ends with at least one final survivor,
\* every entry that was in the registry file before the run (and that
\* load_timestamps keeps) is still in the registry file.
C9_EntriesSurvive ==
    EndedWithSurvivors =>
        \A a \in DOMAIN loaded :
            /\ fs[RegName].kind = "json"
            /\ a \in DOMAIN fs[RegName].data

\* C9, amended: after a run that ends with at least one final survivor, an
\* entry that was loaded from the registry file is still in the file,
\* unchanged, if its address is a final survivor; when the save succeeded the
\* entries of all other addresses are gone, and when it failed the file is as
\* it was before the run.
C9_OnlySurvivorsKept ==
    EndedWithSurvivors =>
        /\ fs[RegName].kind = prior[RegName].kind
              \/ (fs[RegName].kind = "json" /\ ~save_failed)
        /\ \A a \in DOMAIN loaded \cap Survivors :
              /\ a \in DOMAIN fs[RegName].data
              /\ fs[RegName].data[a] = Entry(loaded[a].added_at, loaded[a].location)
        /\ ~save_failed => DOMAIN fs[RegName].data = Survivors
        /\ save_failed => fs[RegName] = prior[RegName]

\* one loaded entry kept, one loaded entry dropped
C9_Witness ==
    /\ EndedWithSurvivors /\ ~save_failed
    /\ \E a \in DOMAIN loaded : a \in DOMAIN fs[RegName].data
    /\ \E a \in DOMAIN loaded : a \notin DOMAIN fs[RegName].data

\* C10: from the call of save_timestamps on, whatever step it is at and
\* however it ends (crash, failed write, failed rename), the registry file is
\* the complete prior file or the complete new mapping, a concurrent reader
\* has read nothing else, and after a failed save the file is the prior one.
C10_AtomicSave ==
    (cleaned_info # EmptyInfo) =>
        /\ fs[RegName] \in {prior[RegName], Dump(cleaned_info)}
        /\ reader_saw \in {Unread, prior[RegName], Dump(cleaned_info)}
        /\ save_failed => fs[RegName] = prior[RegName]
        /\ pc \in {"save_open", "save_dump", "save_replace"} => fs[RegName] = prior[RegName]
        /\ RegistrySaved => fs[RegName] = Dump(cleaned_info)

\* the write of the temporary file failed part way, over an existing registry
C10_Witness ==
    /\ pc = "write_out" /\ save_failed
    /\ fs[TmpName].kind = "partial"
    /\ prior[RegName].kind = "json" /\ fs[RegName] = prior[RegName]
    /\ reader_saw = prior[RegName]

\* the run ended with an output path and an empty final surviving set: the
\* loop left an empty working set, or the confirmation round had no survivor
EndedEmpty ==
    /\ pc = "done" /\ output
    /\ \/ current_proxies = <<>>
       \/ \A a \in Addr : confirm_probes[a] > 0 => a \notin Survivors

\* C11, as stated: when an output path was requested and the final surviving
\* set is empty, the registry file does not exist after the run.
C11_RegistryGone == EndedEmpty => ~Exists(fs[RegName])

\* C11, amended: when an output path was requested and the final surviving
\* set is empty, the run wrote nothing to the registry file, and after the
\* run the file does not exist unless its removal failed; in that case it is
\* the file of before the run.
C11_RegistryGoneUnlessRemoveFails ==
    EndedEmpty =>
        /\ cleaned_info = EmptyInfo /\ ~save_failed /\ fs[TmpName] = Absent
        /\ IF remove_failed THEN fs[RegName] = prior[RegName] /\ Exists(prior[RegName])
           ELSE ~Exists(fs[RegName])

\* a registry file that existed is gone after a confirmation round without survivor
C11_Witness ==
    /\ EndedEmpty /\ current_proxies # <<>>
    /\ Exists(prior[RegName]) /\ ~Exists(fs[RegName])

\* C12: an interrupt during a loop round or the confirmation round ends the
\* process with status 0, with the registry file and the output file as they
\* were before the run, and no round starts after it.
C12_Interrupted == interrupted \in {"probing", "confirm_probing"}

C12_ExitsClean ==
    C12_Interrupted =>
        /\ ExitStatus(pc) = 0
        /\ fs = prior /\ ~out_written

C12_NothingAfter ==
    interrupted # None => UNCHANGED <<pc, round_num, tasks, results, confirm_probes, fs>>

C12_InterruptStopsCleanly == []C12_ExitsClean /\ [][C12_NothingAfter]_vars

\* the interrupt arrived in the second round, after a probe of it had succeeded
C12_Witness ==
    /\ interrupted = "probing" /\ round_num = 2 /\ output
    /\ Exists(prior[RegName]) /\ proxy_info # loaded

\* what the setup read makes it fatal
FatalSetup ==
    \/ setup_fault # "none"
    \/ raw_proxies = <<>>
    \/ filter_proxies_by_cidr(Dedup(raw_proxies), skip_cidr_list) = <<>>

\* C19: a fatal setup error ends the process with a non-zero status before
\* any probe is dispatched and with the output and registry files untouched;
\* a run that completes without stabilizing ends with status zero.
C19_ExitStatus ==
    /\ (FatalSetup /\ pc # "start") =>
          /\ ExitStatus(pc) = 1
          /\ round_num = 0 /\ tasks = <<>> /\ results = <<>>
          /\ \A a \in Addr : confirm_probes[a] = 0
          /\ fs = prior /\ ~out_written
    /\ (Reported /\ ~stable /\ pc \in {"done", "exit0", "exit1"}) => ExitStatus(pc) = 0
    /\ (pc = "exit1") => FatalSetup

\* the list was not empty but the CIDR filter left nothing of it, with files
\* of an earlier run in place
C19_Witness ==
    /\ pc = "exit1" /\ setup_fault = "none" /\ raw_proxies # <<>>
    /\ Exists(fs[RegName]) /\ Exists(fs[OutName])

\* the host validate_proxy found in a proxy it accepted
ValidatedHost(proxy) == HostPort(proxy)[1]

Excluded(host, cidr_list) ==
    IsIP(host) /\ \E i \in 1..Len(cidr_list) : InNetwork(host, cidr_list[i])

\* C17: no proxy that passed validate_proxy and whose host is an IP address
\* inside some network of the exclusion set is in the working set to be probed.
C17_ExcludedNeverProbed ==
    pc = "loop_test" =>
        \A i \in 1..Len(current_proxies) :
            ~Excluded(ValidatedHost(current_proxies[i]), skip_cidr_list)

\* C18: validate_proxy rejects every input that does not start with '[' and
\* whose host part, split off at the last colon, is an IPv6 literal.
C18_UnbracketedIPv6Rejected ==
    (pc # "read" /\ Strip(line) # <<>> /\ Strip(line)[1] # "["
        /\ IsIPv6(ValidatedHost(Strip(line)))) => raw_proxies = <<>>

\* test_all_proxies has returned and main holds its list
Returned == pc \in {"loop_test", "after_loop", "persist", "save_open", "save_dump",
                    "save_replace", "write_out", "done"}

\* C13: test_all_proxies returns exactly one outcome per input address, in
\* the order of the input, whatever the probes ended with: a classified
\* error, a timeout or an exception.
C13_OneOutcomePerAddress ==
    Returned =>
        /\ Len(results) = Len(tasks)
        /\ \A i \in 1..Len(tasks) : results[i].done /\ results[i].proxy = tasks[i]
        /\ \A a \in SetOf(tasks) :
              Cardinality({i \in 1..Len(results) : results[i].proxy = a}) = 1

\* a round of three probes returned with an exception, a classified error and
\* a success
C13_Witness ==
    /\ Returned /\ Len(tasks) = 3
    /\ \E i, j, k \in 1..Len(results) :
          /\ results[i].err = "Exception"
          /\ results[j].err = "Proxy HTTP error"
          /\ results[k].ok

C15_HangFailsNoOther ==
    \A i \in 1..Len(results) :
        (results[i].done /\ results[i].err = "Timeout") => tasks[i] \in never_respond

\* a dispatch: main enters a round
Dispatching == ~Probing /\ Probing'

C16_DispatchAfterAll ==
    Dispatching =>
        /\ \A i \in 1..Len(results) : results[i].done
        /\ conn = {} /\ conn' = {}
        /\ \A i \in 1..Len(results') : ~results'[i].done

C16_NoConnectionOutside == ~Probing => conn = {}

\* C16: no probe of the next round, or of the confirmation round, is
\* dispatched before every probe of the round before it has an outcome, and
\* no connection is held outside a round.
C16_RoundsNeverOverlap == []C16_NoConnectionOutside /\ [][C16_DispatchAfterAll]_vars

\* the confirmation round after two loop rounds, a connection held
C16_Witness ==
    /\ pc = "confirm_probing" /\ round_num = 2 /\ conn # {}
    /\ Len(tasks) >= 2
====
